---- MODULE Spec2Model ----
(***************************************************************************)
(* Model of lib/vt.py: the VirusTotal_Search retrieval pipeline.           *)
(*                                                                         *)
(* One VirusTotal_Search object, one pipeline invocation (search() or      *)
(* download_samples()) on one asyncio event loop.  Tasks are scheduled     *)
(* cooperatively: a task runs until an await that really suspends, so one  *)
(* action is the code between two suspension points.  asyncio.Queue.get()  *)
(* and put() on an unbounded queue do not suspend when an item (resp. room)*)
(* is available; Queue.join() does not suspend when nothing is pending.    *)
(* The suspension points of the workers are the Remote Catalog calls       *)
(* get_object_async, download_file_async and get_json_async.               *)
(***************************************************************************)
EXTENDS Integers, Sequences, FiniteSets, TLC

\* ---------------------------------------------------------------- bounds
NumIds == 2          \* distinct artifact identifiers 1..NumIds
MaxResults == 2      \* results one search iteration yields at most (options["limit"])
MaxLines == 2        \* lines of the hash list file
MaxWorkers == 2      \* largest value of options["workers"]
MaxInvocations == 2  \* pipeline invocations on the one VirusTotal_Search object

Ids == 1..NumIds
Workers == 1..MaxWorkers
NoItem == 0

\* The lines a hash list is made of, after data.strip("\n "): hex is the number
\* of hexadecimal characters the line begins with, len its length.
LineTable == <<
    [hex |-> 32, len |-> 32],    \* an MD5
    [hex |-> 64, len |-> 64],    \* a SHA-256
    [hex |-> 32, len |-> 34],    \* 32 hexadecimal characters, then two others
    [hex |-> 0,  len |-> 10] >>  \* "not-a-hash"
Lines == 1..Len(LineTable)

Kinds == {"file", "url", "domain", "other"}

\* vt.error.APIError codes the code tells apart, and one standing for the rest.
AuthCodes == {"AuthenticationRequiredError", "ForbiddenError",
              "UserNotActiveError", "WrongCredentialsError"}
QuotaCodes == {"QuotaExceededError", "TooManyRequestsError"}
ErrorCodes == {"NotFoundError", "OtherError"} \cup AuthCodes \cup QuotaCodes
FatalCodes == AuthCodes \cup QuotaCodes

VARIABLES
    entry,          \* "search" | "batch": which pipeline entry point runs
    options,        \* [download_samples, download_behavior, workers]
    invocation,     \* number of the pipeline invocation running on the object
    mainPc,         \* position of the entry point's coroutine
    heartbeat,      \* "none" | "running" | "cancelled": the get_heartbeat task
    visited,        \* results the search iteration has yielded so far
    \* While the result iteration of search() runs (history of the loop):
    yielded,        \* the results it has yielded, <<kind, id>>, in order
    artifactLog,    \* the lines it has written to the artifact log
    summaries,      \* the ids it has called display_information with
    putUnlogged,    \* it has put a result into a queue before writing its log line
    srcFile,        \* the lines download_samples() has read, during the Info stage
    searchErr,      \* class of the APIError that ended the iteration, or "none"
    infoQ, sampleQ, behQ,          \* queue contents (asyncio.Queue._queue)
    infoUnf, sampleUnf, behUnf,    \* asyncio.Queue._unfinished_tasks
    infoPut, samplePut, behPut,    \* number of put() calls
    infoGot, sampleGot, behGot,    \* number of get() calls that returned an item
    pcI, pcS, pcB,  \* position of each info / sample / behavior worker task
    curI, curS, curB,              \* the item each worker holds, or NoItem
    resI,           \* get_sample_info's local list `samples`, per worker
    samplesDisk,    \* {samples_dir}/{id}: "absent" | "partial" | "full"
    reportsDisk,    \* {reports_dir}/{id}: "absent" | "valid" | "corrupt"
    infoErrs,       \* classes of the APIErrors the info workers have caught
    infoDiscarded,  \* items the info drain loop took off the queue unlooked-up
    behFatal,       \* a behavior fetch has failed with a Fatal-class code
    behFetchAfterFatal, \* a behavior fetch was issued after that
    reportRewritten,    \* a report was opened for writing over an existing file
    parsed,             \* number of Sandbox_Parser.parse_report calls
    chkS, chkB,     \* what was on disk when the worker checked for the item it
                    \* now fetches: "miss" (no file) | "hit"; "none" otherwise
    sampleFetch, behFetch   \* number of download / behavior calls issued

vars == <<entry, options, invocation, mainPc, heartbeat, visited, searchErr,
          yielded, artifactLog, summaries, putUnlogged, srcFile, reportRewritten,
          parsed,
          infoQ, sampleQ, behQ, infoUnf, sampleUnf, behUnf,
          infoPut, samplePut, behPut,
          infoGot, sampleGot, behGot, pcI, pcS, pcB, curI, curS, curB, resI,
          samplesDisk, reportsDisk, infoErrs, infoDiscarded,
          behFatal, behFetchAfterFatal, chkS, chkB, sampleFetch, behFetch>>

logVars == <<yielded, artifactLog, summaries, putUnlogged>>
mainVars == <<mainPc, heartbeat, visited, searchErr, logVars, srcFile>>
infoVars == <<infoQ, infoUnf, infoPut, infoGot, pcI, curI, resI, infoErrs, infoDiscarded>>
sampleVars == <<sampleQ, sampleUnf, samplePut, sampleGot, pcS, curS, samplesDisk,
               chkS, sampleFetch>>
behVars == <<behQ, behUnf, behPut, behGot, pcB, curB, reportsDisk, behFatal,
            behFetchAfterFatal, chkB, behFetch, reportRewritten, parsed>>
cfgVars == <<entry, options, invocation>>

\* ------------------------------------------------------- asyncio.Queue
\* A loop test that never sees the queue empty (`while True:`).
QEmptyNeverTrue(q) == FALSE

\* Queue.empty(), as tested by `while not self.<role>_queue.empty()`.
QEmpty(q) == Len(q) = 0

\* A join that returns whatever is pending.
JoinDoneWithoutWaiting(unf) == TRUE

\* Queue.join(): returns without waiting iff no put item is still unfinished.
JoinDone(unf) == unf = 0

\* Queue.task_done(): ValueError when called more often than items were put.
TaskDoneRaises(unf) == unf <= 0

\* ------------------------------------------------------------ Disk Cache
\* A check that never finds the file.
IsFileNever(state) == FALSE

\* A check that takes a complete file for a missing one.
IsFileStale(state) == state = "partial"

\* os.path.isfile(path)
IsFile(state) == state # "absent"

RECURSIVE Flatten(_)
Flatten(ss) == IF ss = <<>> THEN <<>> ELSE Head(ss) \o Flatten(Tail(ss))

Init ==
    /\ entry \in {"search", "batch"}
    /\ options \in [download_samples : BOOLEAN, download_behavior : BOOLEAN,
                    workers : 1..MaxWorkers]
    /\ invocation = 1
    /\ mainPc = "start"
    /\ heartbeat = "none"
    /\ visited = 0
    /\ yielded = <<>> /\ artifactLog = <<>> /\ summaries = <<>>
    /\ putUnlogged = FALSE
    /\ srcFile = <<>>
    /\ reportRewritten = FALSE
    /\ parsed = 0
    /\ searchErr = "none"
    /\ infoQ = <<>> /\ sampleQ = <<>> /\ behQ = <<>>
    /\ infoUnf = 0 /\ sampleUnf = 0 /\ behUnf = 0
    /\ infoPut = 0 /\ samplePut = 0 /\ behPut = 0
    /\ infoGot = 0 /\ sampleGot = 0 /\ behGot = 0
    /\ pcI = [w \in Workers |-> "idle"]
    /\ pcS = [w \in Workers |-> "idle"]
    /\ pcB = [w \in Workers |-> "idle"]
    /\ curI = [w \in Workers |-> NoItem]
    /\ curS = [w \in Workers |-> NoItem]
    /\ curB = [w \in Workers |-> NoItem]
    /\ resI = [w \in Workers |-> <<>>]
    /\ samplesDisk \in [Ids -> {"absent", "full"}]
    /\ reportsDisk \in [Ids -> {"absent", "valid"}]
    /\ infoErrs = {}
    /\ infoDiscarded = 0
    /\ behFatal = FALSE
    /\ behFetchAfterFatal = FALSE
    /\ chkS = [w \in Workers |-> "none"]
    /\ chkB = [w \in Workers |-> "none"]
    /\ sampleFetch = 0 /\ behFetch = 0

SeqsUpTo(S, n) == UNION {[1..k -> S] : k \in 0..n}

\* Error Classifier: the branches of the except clauses (lines 350-355, 526-534).
ErrClass(code) ==
    IF code = "NotFoundError" THEN "notfound"
    ELSE IF code \in AuthCodes THEN "fatal"
    ELSE IF code \in QuotaCodes THEN "fatal"
    ELSE "other"

\* A start that creates no worker task.
StartedPoolNever(pc, flag) == pc

\* for worker in range(options["workers"]): create_task(get_behavior_report()),
\* create_task(get_sample()), each only if its download flag is set.
StartedPool(pc, flag) ==
    [w \in Workers |-> IF flag /\ w <= options.workers THEN "loop" ELSE pc[w]]

\* ---------------------------------------------------------- Search Driver
\* search() up to the first fetch of the result iterator: the heartbeat task
\* is created (line 325) and the artifact log opened.
SearchBegin ==
    /\ mainPc = "start" /\ entry = "search"
    /\ mainPc' = "iter"
    /\ heartbeat' = "running"
    /\ UNCHANGED <<visited, searchErr>>
    /\ UNCHANGED <<logVars, srcFile>>
    /\ UNCHANGED <<cfgVars, infoVars, sampleVars, behVars>>

\* A test that lets every kind through.
LoggableAny(kind) == TRUE

\* `obj.type not in ["file", "url", "domain"]` fails: the result is processed.
Loggable(kind) == kind \in {"file", "url", "domain"}

\* A test that queues everything with a log line.
QueuedAny(kind) == kind # "other"

\* `if obj.type == "file":` in front of the two puts.
Queued(kind) == kind = "file"

\* The line f.write puts out: "{id}" for a file or a domain, "{id} => {url}"
\* for a url.
LogLine(kind, id) == [id |-> id, form |-> IF kind = "url" THEN "id => url" ELSE "id"]

\* One pass of the body of `async for obj in it` for a result (kind, id):
\* warning and `continue` for an unknown kind; else the log line, then the
\* puts, then display_information.
SearchVisit(kind, id) ==
    /\ mainPc = "iter"
    /\ visited < MaxResults
    /\ visited' = visited + 1
    /\ yielded' = Append(yielded, <<kind, id>>)
    /\ LET logged == IF Loggable(kind) THEN Append(artifactLog, LogLine(kind, id))
                                       ELSE artifactLog
           toSample == Loggable(kind) /\ Queued(kind) /\ options.download_samples
           toBehavior == Loggable(kind) /\ Queued(kind) /\ options.download_behavior
       IN /\ artifactLog' = logged
          /\ IF toSample
               THEN /\ sampleQ' = Append(sampleQ, id)
                    /\ sampleUnf' = sampleUnf + 1
                    /\ samplePut' = samplePut + 1
               ELSE UNCHANGED <<sampleQ, sampleUnf, samplePut>>
          /\ IF toBehavior
               THEN /\ behQ' = Append(behQ, id)
                    /\ behUnf' = behUnf + 1
                    /\ behPut' = behPut + 1
               ELSE UNCHANGED <<behQ, behUnf, behPut>>
          /\ putUnlogged' = (putUnlogged \/
                ((toSample \/ toBehavior) /\
                   \A i \in 1..Len(logged) : logged[i].id # id))
    /\ summaries' = IF Loggable(kind) THEN Append(summaries, id) ELSE summaries
    /\ UNCHANGED <<mainPc, heartbeat, searchErr, srcFile>>
    /\ UNCHANGED <<cfgVars, infoVars>>
    /\ UNCHANGED <<sampleGot, pcS, curS, samplesDisk, chkS, sampleFetch>>
    /\ UNCHANGED <<behGot, pcB, curB, reportsDisk, behFatal, behFetchAfterFatal, chkB, behFetch,
                   reportRewritten, parsed>>

\* The except clause without its `return None`: control reaches line 360.
SearchErrorFallsThrough(code) ==
    /\ mainPc = "iter"
    /\ mainPc' = "gather"
    /\ searchErr' = ErrClass(code)
    /\ pcS' = StartedPool(pcS, options.download_samples)
    /\ pcB' = StartedPool(pcB, options.download_behavior)
    /\ UNCHANGED <<heartbeat, visited>>
    /\ yielded' = <<>> /\ artifactLog' = <<>> /\ summaries' = <<>>
    /\ UNCHANGED <<putUnlogged, srcFile>>
    /\ UNCHANGED <<cfgVars, infoVars>>
    /\ UNCHANGED <<sampleQ, sampleUnf, samplePut, sampleGot, curS, samplesDisk, chkS, sampleFetch>>
    /\ UNCHANGED <<behQ, behUnf, behPut, behGot, curB, reportsDisk, behFatal, behFetchAfterFatal,
                   chkB, behFetch, reportRewritten, parsed>>

\* The iterator raises vt.error.APIError: every branch logs, then `return None`.
SearchError(code) ==
    /\ mainPc = "iter"
    /\ mainPc' = "aborted"
    /\ searchErr' = ErrClass(code)
    /\ UNCHANGED <<heartbeat, visited>>
    /\ yielded' = <<>> /\ artifactLog' = <<>> /\ summaries' = <<>>
    /\ UNCHANGED <<putUnlogged, srcFile>>
    /\ UNCHANGED <<cfgVars, infoVars, sampleVars, behVars>>

\* The iterator is exhausted: the worker tasks are created and search()
\* suspends in asyncio.gather.  The history of the loop ends with the loop.
SearchIterEnd ==
    /\ mainPc = "iter"
    /\ mainPc' = "gather"
    /\ pcS' = StartedPool(pcS, options.download_samples)
    /\ pcB' = StartedPool(pcB, options.download_behavior)
    /\ UNCHANGED <<heartbeat, visited, searchErr>>
    /\ yielded' = <<>> /\ artifactLog' = <<>> /\ summaries' = <<>>
    /\ UNCHANGED <<putUnlogged, srcFile>>
    /\ UNCHANGED <<cfgVars, infoVars>>
    /\ UNCHANGED <<sampleQ, sampleUnf, samplePut, sampleGot, curS, samplesDisk, chkS, sampleFetch>>
    /\ UNCHANGED <<behQ, behUnf, behPut, behGot, curB, reportsDisk, behFatal, behFetchAfterFatal,
                   chkB, behFetch, reportRewritten, parsed>>

\* gather returns once every worker task has returned; then behavior_queue.join(),
\* sample_queue.join(), task.cancel() on the (finished) worker tasks, return.
PoolsReturned ==
    /\ \A w \in Workers : pcS[w] \in {"idle", "done"}
    /\ \A w \in Workers : pcB[w] \in {"idle", "done"}

MainGatherDone ==
    /\ mainPc = "gather"
    /\ PoolsReturned
    /\ mainPc' = IF ~JoinDone(behUnf) THEN "joinBehavior"
                 ELSE IF ~JoinDone(sampleUnf) THEN "joinSample"
                 ELSE "returned"
    /\ UNCHANGED <<heartbeat, visited, searchErr>>
    /\ UNCHANGED <<logVars, srcFile>>
    /\ UNCHANGED <<cfgVars, infoVars, sampleVars, behVars>>

\* gather re-raises the exception of the first worker task that raised.
MainGatherRaise ==
    /\ \/ mainPc = "gather" /\ \E w \in Workers : "raised" \in {pcS[w], pcB[w]}
       \/ mainPc = "gatherInfo" /\ \E w \in Workers : pcI[w] = "raised"
    /\ mainPc' = "raised"
    /\ UNCHANGED <<heartbeat, visited, searchErr>>
    /\ UNCHANGED <<logVars, srcFile>>
    /\ UNCHANGED <<cfgVars, infoVars, sampleVars, behVars>>

\* -------------------------------------------------- get_sample (lines 546-581)
\* self.sample_queue.task_done() followed by the next loop iteration; the
\* ValueError of a surplus task_done is not an IOError and leaves the task.
SampleTaskDone(w) ==
    IF TaskDoneRaises(sampleUnf)
      THEN pcS' = [pcS EXCEPT ![w] = "raised"] /\ UNCHANGED sampleUnf
      ELSE pcS' = [pcS EXCEPT ![w] = "loop"] /\ sampleUnf' = sampleUnf - 1

\* An open that creates the file only when the first data arrives.
OpenedLate(disk, id) == disk

\* open(sample_path, "wb") (line 574): the file exists, empty, from here on.
Opened(disk, id) == [disk EXCEPT ![id] = "partial"]

\* From the loop test to the next suspension point: leave the loop, or take an
\* item and either skip it (file on disk), fail to open the file (IOError), or
\* create the file and suspend in download_file_async.
SampleLoop(w) ==
    /\ pcS[w] = "loop"
    /\ IF QEmpty(sampleQ)
         THEN /\ pcS' = [pcS EXCEPT ![w] = "done"]
              /\ UNCHANGED <<sampleQ, sampleUnf, sampleGot, curS, samplesDisk,
                             chkS, sampleFetch>>
       ELSE IF sampleQ = <<>>
         THEN \* get() on an empty queue: the task waits for a put
              /\ pcS' = [pcS EXCEPT ![w] = "blocked"]
              /\ UNCHANGED <<sampleQ, sampleUnf, sampleGot, curS, samplesDisk,
                             chkS, sampleFetch>>
       ELSE LET id == Head(sampleQ) IN
              /\ sampleQ' = Tail(sampleQ)
              /\ sampleGot' = sampleGot + 1
              /\ IF IsFile(samplesDisk[id])
                   THEN /\ SampleTaskDone(w)
                        /\ UNCHANGED <<curS, samplesDisk, chkS, sampleFetch>>
                   ELSE \E opened \in BOOLEAN :
                          IF opened
                            THEN /\ chkS' = [chkS EXCEPT ![w] =
                                        IF samplesDisk[id] = "absent" THEN "miss" ELSE "hit"]
                                 /\ samplesDisk' = Opened(samplesDisk, id)
                                 /\ curS' = [curS EXCEPT ![w] = id]
                                 /\ pcS' = [pcS EXCEPT ![w] = "download"]
                                 /\ sampleFetch' = sampleFetch + 1
                                 /\ UNCHANGED sampleUnf
                            ELSE /\ SampleTaskDone(w)
                                 /\ UNCHANGED <<curS, samplesDisk, chkS, sampleFetch>>
    /\ UNCHANGED samplePut
    /\ UNCHANGED <<cfgVars, mainVars, infoVars, behVars>>

\* download_file_async returns ("ok"), raises vt.error.APIError ("api": not an
\* IOError, so it leaves the coroutine) or an IOError ("io": caught, line 579).
SampleDownloadReturn(w, outcome) ==
    /\ pcS[w] = "download"
    /\ curS' = [curS EXCEPT ![w] = NoItem]
    /\ samplesDisk' = IF outcome = "ok"
                        THEN [samplesDisk EXCEPT ![curS[w]] = "full"]
                        ELSE samplesDisk
    /\ IF outcome = "api"
         THEN pcS' = [pcS EXCEPT ![w] = "raised"] /\ UNCHANGED sampleUnf
         ELSE SampleTaskDone(w)
    /\ chkS' = [chkS EXCEPT ![w] = "none"]
    /\ UNCHANGED <<sampleQ, samplePut, sampleGot, sampleFetch>>
    /\ UNCHANGED <<cfgVars, mainVars, infoVars, behVars>>

\* ----------------------------------------- get_behavior_report (lines 404-454)
\* A flag set whenever the call returned a report, saved or not.
PersistedAnyData(outcome, persist) == outcome = "data"

\* report_retrieved after a fetch (line 433): the call returned a report and
\* open and json.dump raised no IOError.
Persisted(outcome, persist) == outcome = "data" /\ persist = "ok"

\* report_retrieved after a cache hit (line 444): json.load raised nothing.
ReadBack(state) == state = "valid"

BehTaskDone(w) ==
    IF TaskDoneRaises(behUnf)
      THEN pcB' = [pcB EXCEPT ![w] = "raised"] /\ UNCHANGED behUnf
      ELSE pcB' = [pcB EXCEPT ![w] = "loop"] /\ behUnf' = behUnf - 1

\* From the loop test to the next suspension point: leave the loop, or take an
\* item and either suspend in execute_request (no report file) or read the
\* cached report back, parse it if readable, and mark the item done.
BehLoop(w) ==
    /\ pcB[w] = "loop"
    /\ IF QEmpty(behQ)
         THEN /\ pcB' = [pcB EXCEPT ![w] = "done"]
              /\ UNCHANGED <<behQ, behUnf, behGot, curB, behFetchAfterFatal, chkB, behFetch,
                             parsed>>
       ELSE IF behQ = <<>>
         THEN /\ pcB' = [pcB EXCEPT ![w] = "blocked"]
              /\ UNCHANGED <<behQ, behUnf, behGot, curB, behFetchAfterFatal, chkB, behFetch,
                             parsed>>
       ELSE LET id == Head(behQ) IN
              /\ behQ' = Tail(behQ)
              /\ behGot' = behGot + 1
              /\ IF ~IsFile(reportsDisk[id])
                   THEN /\ chkB' = [chkB EXCEPT ![w] =
                              IF reportsDisk[id] = "absent" THEN "miss" ELSE "hit"]
                        /\ curB' = [curB EXCEPT ![w] = id]
                        /\ pcB' = [pcB EXCEPT ![w] = "fetch"]
                        /\ behFetch' = behFetch + 1
                        /\ behFetchAfterFatal' = (behFetchAfterFatal \/ behFatal)
                        /\ UNCHANGED <<behUnf, parsed>>
                   ELSE /\ parsed' = IF ReadBack(reportsDisk[id]) THEN parsed + 1 ELSE parsed
                        /\ BehTaskDone(w)
                        /\ UNCHANGED <<curB, behFetchAfterFatal, chkB, behFetch>>
    /\ UNCHANGED <<behPut, reportsDisk, behFatal, reportRewritten>>
    /\ UNCHANGED <<cfgVars, mainVars, infoVars, sampleVars>>

\* execute_request returns: the report ("data"), or None for a response without
\* "data" ("nodata") and for every vt.error.APIError, whatever its code.
\* With a report, persist: "ok", IOError at open ("openfail") or in json.dump
\* ("dumpfail").
BehOutcomes == {"data", "nodata"} \cup ErrorCodes
PersistOutcomes == {"ok", "openfail", "dumpfail"}

BehFetchReturn(w, outcome, persist) ==
    /\ pcB[w] = "fetch"
    /\ outcome # "data" => persist = "ok"
    /\ curB' = [curB EXCEPT ![w] = NoItem]
    /\ behFatal' = (behFatal \/ outcome \in FatalCodes)
    /\ reportsDisk' = IF outcome = "data" /\ persist = "ok"
                        THEN [reportsDisk EXCEPT ![curB[w]] = "valid"]
                      ELSE IF outcome = "data" /\ persist = "dumpfail"
                        THEN [reportsDisk EXCEPT ![curB[w]] = "corrupt"]
                      ELSE reportsDisk
    /\ reportRewritten' = (reportRewritten \/
            (outcome = "data" /\ persist # "openfail" /\ IsFile(reportsDisk[curB[w]])))
    /\ parsed' = IF Persisted(outcome, persist) THEN parsed + 1 ELSE parsed
    /\ BehTaskDone(w)
    /\ chkB' = [chkB EXCEPT ![w] = "none"]
    /\ UNCHANGED <<behQ, behPut, behGot, behFetchAfterFatal, behFetch>>
    /\ UNCHANGED <<cfgVars, mainVars, infoVars, sampleVars>>

\* --------------------------------------------- get_sample_info (lines 506-543)
\* while not self.info_queue.empty(): await get(); task_done()  (lines 537-539)
\* st: "ok" when the loop ran to its end, "blocked" when a get() found the queue
\* empty, "raised" when a task_done() was one too many.
RECURSIVE DrainInfo(_, _)
DrainInfo(q, unf) ==
    IF QEmpty(q) THEN [q |-> q, unf |-> unf, st |-> "ok"]
    ELSE IF q = <<>> THEN [q |-> q, unf |-> unf, st |-> "blocked"]
    ELSE IF TaskDoneRaises(unf) THEN [q |-> Tail(q), unf |-> unf, st |-> "raised"]
    ELSE DrainInfo(Tail(q), unf - 1)

InfoLoop(w) ==
    /\ pcI[w] = "loop"
    /\ IF QEmpty(infoQ)
         THEN /\ pcI' = [pcI EXCEPT ![w] = "done"]
              /\ UNCHANGED <<infoQ, infoGot, curI>>
       ELSE IF infoQ = <<>>
         THEN /\ pcI' = [pcI EXCEPT ![w] = "blocked"]
              /\ UNCHANGED <<infoQ, infoGot, curI>>
       ELSE /\ infoQ' = Tail(infoQ)
            /\ infoGot' = infoGot + 1
            /\ curI' = [curI EXCEPT ![w] = Head(infoQ)]
            /\ pcI' = [pcI EXCEPT ![w] = "lookup"]
    /\ UNCHANGED <<infoUnf, infoPut, resI, infoErrs, infoDiscarded>>
    /\ UNCHANGED <<cfgVars, mainVars, sampleVars, behVars>>

\* get_object_async returned the record the hash names, rid being the
\* record's id: summary written, record appended to `samples`, task_done
\* (line 541).
InfoLookupOk(w, rid) ==
    /\ pcI[w] = "lookup"
    /\ resI' = [resI EXCEPT ![w] = Append(@, rid)]
    /\ curI' = [curI EXCEPT ![w] = NoItem]
    /\ IF TaskDoneRaises(infoUnf)
         THEN pcI' = [pcI EXCEPT ![w] = "raised"] /\ UNCHANGED infoUnf
         ELSE pcI' = [pcI EXCEPT ![w] = "loop"] /\ infoUnf' = infoUnf - 1
    /\ UNCHANGED <<infoQ, infoPut, infoGot, infoErrs, infoDiscarded>>
    /\ UNCHANGED <<cfgVars, mainVars, sampleVars, behVars>>

\* get_object_async raised vt.error.APIError(code).  NotFoundError: `continue`
\* (line 528), which skips line 541.  Every other code: the drain loop of
\* lines 537-539, then task_done (line 541).
InfoLookupFail(w, code) ==
    /\ pcI[w] = "lookup"
    /\ curI' = [curI EXCEPT ![w] = NoItem]
    /\ infoErrs' = infoErrs \cup {ErrClass(code)}
    /\ IF code = "NotFoundError"
         THEN /\ pcI' = [pcI EXCEPT ![w] = "loop"]
              /\ UNCHANGED <<infoQ, infoUnf, infoGot, infoDiscarded>>
         ELSE LET d == DrainInfo(infoQ, infoUnf)
                  n == Len(infoQ) - Len(d.q)
              IN /\ infoQ' = d.q
                 /\ infoGot' = infoGot + n
                 /\ infoDiscarded' = infoDiscarded + n
                 /\ IF d.st = "ok" /\ ~TaskDoneRaises(d.unf)
                      THEN /\ infoUnf' = d.unf - 1
                           /\ pcI' = [pcI EXCEPT ![w] = "loop"]
                      ELSE /\ infoUnf' = d.unf
                           /\ pcI' = [pcI EXCEPT ![w] =
                                        IF d.st = "blocked" THEN "blocked" ELSE "raised"]
    /\ UNCHANGED <<resI, infoPut>>
    /\ UNCHANGED <<cfgVars, mainVars, sampleVars, behVars>>

\* ------------------------------------------------------------ Batch Loader
\* re.compile(r"([a-fA-F\d]{n})").match(data): the pattern is matched at the
\* start of the line and what follows it is not looked at.
ReMatch(n, line) == LineTable[line].hex >= n

\* Line 472: md5.match(data) or sha1.match(data) or sha256.match(data)
IsHashLine(line) == ReMatch(32, line) \/ ReMatch(40, line) \/ ReMatch(64, line)

\* The walk of lines 469-477 without the `not in samples` test.
RECURSIVE AcceptedWithRepeats(_, _)
AcceptedWithRepeats(file, samples) ==
    IF file = <<>> THEN samples
    ELSE IF IsHashLine(Head(file))
      THEN AcceptedWithRepeats(Tail(file), Append(samples, Head(file)))
    ELSE AcceptedWithRepeats(Tail(file), samples)

\* Lines 467-477: the accepted lines in file order, each once.
RECURSIVE Accepted(_, _)
Accepted(file, samples) ==
    IF file = <<>> THEN samples
    ELSE IF IsHashLine(Head(file)) /\ \A i \in 1..Len(samples) : samples[i] # Head(file)
      THEN Accepted(Tail(file), Append(samples, Head(file)))
    ELSE Accepted(Tail(file), samples)

\* download_samples() up to its first suspension (the gather of line 484):
\* heartbeat created, file read, Info queue filled, Info workers created.
BatchLoad(file) ==
    /\ mainPc = "start" /\ entry = "batch"
    /\ mainPc' = "gatherInfo"
    /\ heartbeat' = "running"
    /\ srcFile' = file
    /\ LET samples == Accepted(file, <<>>) IN
         /\ infoQ' = infoQ \o samples
         /\ infoUnf' = infoUnf + Len(samples)
         /\ infoPut' = infoPut + Len(samples)
    /\ pcI' = StartedPool(pcI, TRUE)
    /\ UNCHANGED <<visited, searchErr>>
    /\ UNCHANGED <<infoGot, curI, resI, infoErrs, infoDiscarded>>
    /\ UNCHANGED <<logVars>>
    /\ UNCHANGED <<cfgVars, sampleVars, behVars>>

\* Lines 484-498: every Info worker has returned; info_queue.join(); the
\* records of all workers, in task order, go to the Sample/Behavior queues per
\* the download flags; the Sample/Behavior workers are created.  When the join
\* finds a pending item it waits, and no task is left to mark anything done.
BatchAfterInfo ==
    /\ mainPc = "gatherInfo"
    /\ \A w \in Workers : pcI[w] \in {"idle", "done"}
    /\ IF JoinDone(infoUnf)
         THEN LET results == Flatten([w \in 1..options.workers |-> resI[w]]) IN
              /\ mainPc' = "gather"
              /\ IF options.download_samples
                   THEN /\ sampleQ' = sampleQ \o results
                        /\ sampleUnf' = sampleUnf + Len(results)
                        /\ samplePut' = samplePut + Len(results)
                   ELSE UNCHANGED <<sampleQ, sampleUnf, samplePut>>
              /\ IF options.download_behavior
                   THEN /\ behQ' = behQ \o results
                        /\ behUnf' = behUnf + Len(results)
                        /\ behPut' = behPut + Len(results)
                   ELSE UNCHANGED <<behQ, behUnf, behPut>>
              /\ pcS' = StartedPool(pcS, options.download_samples)
              /\ pcB' = StartedPool(pcB, options.download_behavior)
         ELSE /\ mainPc' = "joinInfo"
              /\ UNCHANGED <<sampleQ, sampleUnf, samplePut, behQ, behUnf, behPut, pcS, pcB>>
    /\ UNCHANGED <<heartbeat, visited, searchErr>>
    /\ srcFile' = <<>>      \* the list is not looked at again
    /\ UNCHANGED logVars
    /\ UNCHANGED <<cfgVars, infoVars>>
    /\ UNCHANGED <<sampleGot, curS, samplesDisk, chkS, sampleFetch>>
    /\ UNCHANGED <<behGot, curB, reportsDisk, behFatal, behFetchAfterFatal, chkB, behFetch,
                   reportRewritten, parsed>>

\* ------------------------------------------------------------ specification
Next ==
    \/ SearchBegin
    \/ \E kind \in Kinds, id \in Ids : SearchVisit(kind, id)
    \/ \E code \in ErrorCodes : SearchError(code)
    \/ SearchIterEnd
    \/ \E file \in SeqsUpTo(Lines, MaxLines) : BatchLoad(file)
    \/ BatchAfterInfo
    \/ MainGatherDone
    \/ MainGatherRaise
    \/ \E w \in Workers : InfoLoop(w)
    \/ \E w \in Workers, rid \in Ids : InfoLookupOk(w, rid)
    \/ \E w \in Workers, code \in ErrorCodes : InfoLookupFail(w, code)
    \/ \E w \in Workers : SampleLoop(w)
    \/ \E w \in Workers, outcome \in {"ok", "api", "io"} : SampleDownloadReturn(w, outcome)
    \/ \E w \in Workers : BehLoop(w)
    \/ \E w \in Workers, outcome \in BehOutcomes, persist \in PersistOutcomes :
          BehFetchReturn(w, outcome, persist)

Spec == Init /\ [][Next]_vars

\* The event loop runs every task that is ready, and every Remote Catalog call
\* a worker waits in comes back (with a result or an error).
WorkerFairness ==
    \A w \in Workers :
        /\ WF_vars(InfoLoop(w))
        /\ WF_vars((\E rid \in Ids : InfoLookupOk(w, rid)) \/ \E code \in ErrorCodes : InfoLookupFail(w, code))
        /\ WF_vars(SampleLoop(w))
        /\ WF_vars(\E outcome \in {"ok", "api", "io"} : SampleDownloadReturn(w, outcome))
        /\ WF_vars(BehLoop(w))
        /\ WF_vars(\E outcome \in BehOutcomes, persist \in PersistOutcomes :
                      BehFetchReturn(w, outcome, persist))

FairSpec == Spec /\ WorkerFairness

\* The caller invokes search() again on the same object after search() has
\* returned None from its except clause.  The queues are fields of the object,
\* set in __init__ (lines 107-109) and nowhere else, so the new invocation
\* finds them as the old one left them.  MaxResults bounds the results of
\* both invocations together.
Reinvoke ==
    /\ mainPc = "aborted"
    /\ invocation < MaxInvocations
    /\ invocation' = invocation + 1
    /\ mainPc' = "start"
    /\ searchErr' = "none"
    /\ UNCHANGED <<entry, options, heartbeat, visited, logVars, srcFile>>
    /\ UNCHANGED <<infoVars, sampleVars, behVars>>

ReuseNext == Next \/ Reinvoke

ReuseSpec == Init /\ [][ReuseNext]_vars

\* A search() run on an empty Sample cache with download_samples set,
\* download_behavior unset and two workers, whose results are Files with
\* distinct ids and in which nothing fails: the iterator raises no APIError,
\* every open succeeds and every download_file_async returns normally.
ScenarioInit ==
    /\ Init
    /\ entry = "search"
    /\ options = [download_samples |-> TRUE, download_behavior |-> FALSE, workers |-> 2]
    /\ \A id \in Ids : samplesDisk[id] = "absent"

ScenarioVisit(id) ==
    /\ \A i \in 1..Len(yielded) : yielded[i][2] # id
    /\ SearchVisit("file", id)

ScenarioSampleLoop(w) ==
    /\ SampleLoop(w)
    /\ sampleGot' = sampleGot + 1 => IsFile(samplesDisk'[Head(sampleQ)])

ScenarioNext ==
    \/ SearchBegin
    \/ \E id \in Ids : ScenarioVisit(id)
    \/ SearchIterEnd
    \/ MainGatherDone
    \/ \E w \in Workers : ScenarioSampleLoop(w)
    \/ \E w \in Workers : SampleDownloadReturn(w, "ok")

\* The event loop keeps running whatever is ready.
ScenarioSpec == ScenarioInit /\ [][ScenarioNext]_vars /\ WF_vars(ScenarioNext)

\* ------------------------------------------------------------------ claims
\* Workers of a pool that hold an item taken off the queue and not yet settled.
Holding(pc, at) == Cardinality({w \in Workers : pc[w] = at})

InfoWorkersReturned == \A w \in Workers : pcI[w] \in {"idle", "done"}

\* C1: every item a worker took off its queue is marked done exactly once on
\* every path: at any moment the task_done calls of a queue number the items
\* taken minus the items a worker is still working on.
C1_MarkDoneExactlyOnce ==
    /\ infoPut - infoUnf = infoGot - Holding(pcI, "lookup")
    /\ samplePut - sampleUnf = sampleGot - Holding(pcS, "download")
    /\ behPut - behUnf = behGot - Holding(pcB, "fetch")

\* C2: a Batch Loader run whose only Info errors are NotFound never ends up
\* waiting in info_queue.join() with no task left to mark anything done.
C2_SkipNeverBlocksInfoJoin ==
    (entry = "batch" /\ infoErrs = {"notfound"}) => mainPc # "joinInfo"

\* C3: when a pipeline run has returned after its joins, the pending count of
\* each of the three queues is zero.
C3_JoinCompletion ==
    mainPc = "returned" => (infoUnf = 0 /\ sampleUnf = 0 /\ behUnf = 0)

\* C3 witness: a Batch Loader run that resolved two hashes and returned.
C3_Witness ==
    /\ mainPc = "returned"
    /\ entry = "batch"
    /\ infoPut = 2 /\ samplePut = 2 /\ behPut = 2

\* C4: after a Fatal-class error in the search iteration the Search Driver has
\* returned, no Sample or Behavior worker was started, and when no result had
\* been visited nothing was put into the Sample or Behavior queue.
C4_FatalAbortStartsNoWorker ==
    searchErr = "fatal" =>
        /\ mainPc = "aborted"
        /\ \A w \in Workers : pcS[w] = "idle" /\ pcB[w] = "idle"
        /\ sampleGot = 0 /\ behGot = 0
        /\ visited = 0 => (samplePut = 0 /\ behPut = 0 /\ sampleQ = <<>> /\ behQ = <<>>)

\* C4 witness: a Fatal-class error on the first result with both downloads on.
C4_Witness ==
    /\ searchErr = "fatal"
    /\ visited = 0
    /\ options.download_samples /\ options.download_behavior

\* C5: a sample worker whose download failed with an API error marks the item
\* done and goes on: no sample worker task ends by an exception, and the
\* Sample queue's pending count covers only queued and in-flight items.
C5_SampleApiErrorSkipped ==
    /\ \A w \in Workers : pcS[w] # "raised"
    /\ sampleUnf = Len(sampleQ) + Holding(pcS, "download")

\* C6: while the Info workers have met Transient-log errors but no Fatal one,
\* no identifier has been taken off the Info queue without being looked up.
C6_TransientFailsOnlyThatItem ==
    ("other" \in infoErrs /\ "fatal" \notin infoErrs) => infoDiscarded = 0

\* C7: after a Fatal-class error in the Info stage of the Batch Loader nothing
\* is put into the Sample or Behavior queue and no Sample or Behavior worker runs.
C7_FatalInfoYieldsNothing ==
    (entry = "batch" /\ "fatal" \in infoErrs) =>
        /\ samplePut = 0 /\ behPut = 0
        /\ \A w \in Workers : pcS[w] = "idle" /\ pcB[w] = "idle"

\* C8: once an Info worker has hit a Fatal-class error and every Info worker
\* has returned, the Info queue is empty and its pending count is zero; and
\* task_done is never called more often than items were put.
C8_FatalDrainUnblocksJoin ==
    /\ infoUnf >= 0
    /\ \A w \in Workers : pcI[w] # "raised"
    /\ ("fatal" \in infoErrs /\ InfoWorkersReturned) => (infoQ = <<>> /\ infoUnf = 0)

\* C9: after a behavior fetch failed with a Fatal-class error no behavior
\* worker issues another fetch.
C9_FatalAbortsBehaviorStage == ~behFetchAfterFatal

\* No worker task waits in get() on an empty queue.
NoWorkerBlocked ==
    \A w \in Workers : pcI[w] # "blocked" /\ pcS[w] # "blocked" /\ pcB[w] # "blocked"

\* Every item put is either still queued or was handed to exactly one get().
EachItemHandedOnce ==
    /\ infoGot + Len(infoQ) = infoPut
    /\ sampleGot + Len(sampleQ) = samplePut
    /\ behGot + Len(behQ) = behPut

\* Every worker task that was started has left its loop.
AllWorkersLeft ==
    \A w \in Workers : /\ pcI[w] \in {"idle", "done", "raised"}
                       /\ pcS[w] \in {"idle", "done", "raised"}
                       /\ pcB[w] \in {"idle", "done", "raised"}

\* C10: with workers sharing a queue, the emptiness test and the take are one
\* atomic claim: no worker ever waits in get() on an empty queue, no item is
\* handed to two workers, and every worker eventually leaves its loop.
C10_AtomicClaim ==
    /\ [](NoWorkerBlocked /\ EachItemHandedOnce)
    /\ <>[]AllWorkersLeft

\* C10 witness: two workers per role have emptied queues of two items and left.
C10_Witness ==
    /\ options.workers = 2
    /\ pcS[1] = "done" /\ pcS[2] = "done"
    /\ pcB[1] = "done" /\ pcB[2] = "done"
    /\ sampleGot = 2 /\ behGot = 2

\* C11: the Heartbeat Monitor task exists only once the search iteration has
\* ended without an error, and when the pipeline run has returned after its
\* joins the task has been cancelled.
C11_HeartbeatStartedLateAndCancelled ==
    /\ heartbeat = "running" => mainPc \notin {"iter", "aborted"}
    /\ mainPc = "returned" => heartbeat = "cancelled"

\* C12: a sample or behavior worker that is in a Remote Catalog fetch checked
\* the Disk Cache for the item it holds before and found no file, and no
\* claimed item causes more than one fetch.
C12_CacheCheckBeforeFetch ==
    /\ \A w \in Workers : pcS[w] = "download" => chkS[w] = "miss"
    /\ \A w \in Workers : pcB[w] = "fetch" => chkB[w] = "miss"
    /\ sampleFetch <= sampleGot
    /\ behFetch <= behGot

\* C12 witness: one worker skipped a cached sample while another, having
\* found no file for its item, is in the download.
C12_Witness ==
    /\ \E w \in Workers : pcS[w] = "download" /\ chkS[w] = "miss"
    /\ sampleGot = 2 /\ sampleFetch = 1
    /\ \E w \in Workers : pcB[w] = "fetch" /\ chkB[w] = "miss"

\* C13: a sample file that a successful download has left complete stays
\* complete and unchanged, and a worker that takes an item whose file is
\* complete issues no download call for it.
C13_SecondRunFetchesNothing ==
    [][\A id \in Ids : samplesDisk[id] = "full" =>
          /\ samplesDisk'[id] = "full"
          /\ (sampleQ # <<>> /\ Head(sampleQ) = id /\ sampleGot' = sampleGot + 1)
                => (sampleFetch' = sampleFetch /\ samplesDisk' = samplesDisk)]_vars

\* C13 witness: two items were taken in a run that found every sample complete
\* from an earlier download, and no download call was made.
C13_Witness ==
    /\ samplePut = 2 /\ sampleGot = 2 /\ sampleUnf = 0
    /\ sampleFetch = 0
    /\ \A id \in Ids : samplesDisk[id] = "full"

\* C14: no identifier is in the Sample queue twice nor in the Behavior queue
\* twice (every put of a run precedes the first get, so a second put of an
\* identifier shows in the queue).
C14_NoIdQueuedTwice ==
    /\ \A i, j \in 1..Len(sampleQ) : i < j => sampleQ[i] # sampleQ[j]
    /\ \A i, j \in 1..Len(behQ) : i < j => behQ[i] # behQ[j]

\* C15: no behavior worker opens {reports_dir}/{id} for writing when that file
\* already exists.
C15_ReportWrittenOnce == ~reportRewritten

\* C16: every line in the Info queue consists of exactly 32, 40 or 64
\* hexadecimal characters and nothing else.
C16_OnlyExactHashesQueued ==
    \A i \in 1..Len(infoQ) :
        /\ LineTable[infoQ[i]].hex = LineTable[infoQ[i]].len
        /\ LineTable[infoQ[i]].len \in {32, 40, 64}

\* C17: right after the Batch Loader has read the list, the Info queue holds
\* the lines the loader takes as hashes, each once, at the rank of its first
\* occurrence in the file; its length is the number of distinct such lines.
C17_EachAcceptedOnceInOrder ==
    (mainPc = "gatherInfo" /\ infoGot = 0) =>
        LET first == {i \in 1..Len(srcFile) :
                         /\ IsHashLine(srcFile[i])
                         /\ \A j \in 1..(i - 1) : srcFile[j] # srcFile[i]}
        IN /\ Len(infoQ) = Cardinality(first)
           /\ \A i \in first : infoQ[Cardinality({j \in first : j <= i})] = srcFile[i]
           /\ Len(infoQ) = Cardinality({srcFile[i] : i \in
                               {k \in 1..Len(srcFile) : IsHashLine(srcFile[k])}})
           /\ infoPut = Len(infoQ)

\* C17 witness: a list of one hash written twice has put one item.
C17_Witness ==
    /\ mainPc = "gatherInfo" /\ infoGot = 0
    /\ Len(srcFile) = 2 /\ srcFile[1] = srcFile[2]
    /\ Len(infoQ) = 1 /\ infoQ[1] = srcFile[1]

\* C18: while the Search Driver iterates, the Sample queue holds the ids of
\* the File results yielded so far, in order, when download_samples is set and
\* nothing otherwise; the Behavior queue likewise for download_behavior.  A
\* URL, Domain or unknown-kind result is in neither.
C18_OnlyFilesQueuedPerFlag ==
    (entry = "search" /\ mainPc = "iter") =>
        LET files == {i \in 1..Len(yielded) : yielded[i][1] = "file"} IN
        /\ Len(sampleQ) = IF options.download_samples THEN Cardinality(files) ELSE 0
        /\ Len(behQ) = IF options.download_behavior THEN Cardinality(files) ELSE 0
        /\ options.download_samples =>
              \A i \in files : sampleQ[Cardinality({j \in files : j <= i})] = yielded[i][2]
        /\ options.download_behavior =>
              \A i \in files : behQ[Cardinality({j \in files : j <= i})] = yielded[i][2]
        /\ samplePut = Len(sampleQ) /\ behPut = Len(behQ)

\* C18 witness: a URL and then a File were yielded with only download_samples
\* set; the File is in the Sample queue and nothing in the Behavior queue.
C18_Witness ==
    /\ mainPc = "iter" /\ Len(yielded) = 2
    /\ yielded[1][1] = "url" /\ yielded[2][1] = "file"
    /\ options.download_samples /\ ~options.download_behavior
    /\ sampleQ = <<yielded[2][2]>> /\ behQ = <<>>

\* C19: while the Search Driver iterates, the artifact log has one line for
\* each File, URL or Domain result yielded so far, in iteration order, and a
\* summary record was written for exactly those; no result was put into a
\* queue before its line was written, and a result of another kind has no
\* line, no put and no summary record.
C19_OneLogLinePerVisited ==
    /\ ~putUnlogged
    /\ (entry = "search" /\ mainPc = "iter") =>
        LET vis == {i \in 1..Len(yielded) : yielded[i][1] \in {"file", "url", "domain"}} IN
        /\ Len(yielded) = visited
        /\ Len(artifactLog) = Cardinality(vis)
        /\ Len(summaries) = Cardinality(vis)
        /\ \A i \in vis :
              LET r == Cardinality({j \in vis : j <= i}) IN
              /\ artifactLog[r].id = yielded[i][2]
              /\ artifactLog[r].form = "id => url" <=> yielded[i][1] = "url"
              /\ summaries[r] = yielded[i][2]
        /\ samplePut <= Len(artifactLog) /\ behPut <= Len(artifactLog)

\* C19 witness: an unknown-kind result and then a File were yielded; the log
\* has the File's line only and the File was queued.
C19_Witness ==
    /\ mainPc = "iter" /\ Len(yielded) = 2
    /\ yielded[1][1] = "other" /\ yielded[2][1] = "file"
    /\ Len(artifactLog) = 1 /\ artifactLog[1].id = yielded[2][2]
    /\ summaries = <<yielded[2][2]>>
    /\ samplePut = 1 /\ behPut = 1

\* C20: in a Batch Loader run, once an item has been put into the Sample or
\* Behavior queue or a sample or behavior worker exists, every Info worker has
\* returned and the Info queue has nothing pending.
C20_InfoStageFirst ==
    (/\ entry = "batch"
     /\ \/ samplePut > 0 \/ behPut > 0
        \/ \E w \in Workers : pcS[w] # "idle" \/ pcB[w] # "idle")
    => (InfoWorkersReturned /\ infoUnf = 0 /\ infoQ = <<>>)

\* C20 witness: a batch run whose Info stage resolved two hashes has a sample
\* worker in a download and a behavior worker in a fetch.
C20_Witness ==
    /\ entry = "batch" /\ infoPut = 2 /\ samplePut = 2 /\ behPut = 2
    /\ \E w \in Workers : pcS[w] = "download"
    /\ \E w \in Workers : pcB[w] = "fetch"

\* C21: a behavior worker calls the Sandbox Parser once when a fetch returned a
\* report that was saved, once when it took an item whose cached report reads
\* back, and at no other step; taking an item whose report file exists issues
\* no behavior call, readable or not.
C21_ParserOncePerRetrievedReport ==
    [][/\ \A w \in Workers, outcome \in BehOutcomes, persist \in PersistOutcomes :
            BehFetchReturn(w, outcome, persist) =>
                parsed' = parsed + (IF outcome = "data" /\ persist = "ok" THEN 1 ELSE 0)
       /\ (behGot' = behGot + 1 /\ reportsDisk[Head(behQ)] # "absent") =>
                /\ behFetch' = behFetch
                /\ parsed' = parsed + (IF reportsDisk[Head(behQ)] = "valid" THEN 1 ELSE 0)
       /\ (behGot' = behGot + 1 /\ reportsDisk[Head(behQ)] = "absent") => parsed' = parsed
       /\ parsed' # parsed =>
                \/ behGot' = behGot + 1
                \/ \E w \in Workers : pcB[w] = "fetch" /\ pcB'[w] # "fetch"]_vars

\* C21 witness: of two items taken, one was fetched, saved and parsed and the
\* other was read back from the cache and parsed, with one behavior call.
C21_Witness ==
    /\ behPut = 2 /\ behGot = 2 /\ behUnf = 0
    /\ behFetch = 1 /\ parsed = 2

\* C22: in the scenario the run returns; whenever it has returned, every
\* result was put into the Sample queue and none into the Behavior queue, one
\* download call was made per result, nothing is pending, and as many sample
\* files are complete as results were yielded (the ids being distinct, one
\* per id).
C22_ScenarioEnd ==
    mainPc = "returned" =>
        /\ samplePut = visited /\ behPut = 0
        /\ sampleFetch = visited
        /\ sampleUnf = 0 /\ sampleQ = <<>>
        /\ Cardinality({id \in Ids : samplesDisk[id] = "full"}) = visited
        /\ \A id \in Ids : samplesDisk[id] # "partial"

C22_EndToEndSamples == []C22_ScenarioEnd /\ <>(mainPc = "returned")

\* C22 witness: the run has returned after two File results with distinct ids,
\* two download calls, both sample files complete.
C22_Witness ==
    /\ mainPc = "returned" /\ visited = 2
    /\ samplePut = 2 /\ sampleFetch = 2 /\ behPut = 0
    /\ \A id \in Ids : samplesDisk[id] = "full"

\* C23: whenever a pipeline invocation is at its start, the three queues are
\* empty and none has a pending item.
C23_QueuesFreshAtStart ==
    mainPc = "start" =>
        /\ infoQ = <<>> /\ sampleQ = <<>> /\ behQ = <<>>
        /\ infoUnf = 0 /\ sampleUnf = 0 /\ behUnf = 0

\* C24: an API error raised by the iteration makes search() return from its
\* except clause; from then on every item it had put is still in its queue
\* and pending, no sample or behavior worker exists, no item was taken,
\* fetched for or marked done, and the invocation does nothing more.
C24_AbortLeavesItemsPending ==
    /\ [](searchErr # "none" => mainPc = "aborted")
    /\ [](mainPc = "aborted" =>
            /\ Len(sampleQ) = samplePut /\ sampleUnf = samplePut
            /\ Len(behQ) = behPut /\ behUnf = behPut
            /\ \A w \in Workers : pcS[w] = "idle" /\ pcB[w] = "idle"
            /\ sampleGot = 0 /\ behGot = 0 /\ sampleFetch = 0 /\ behFetch = 0)
    /\ [][mainPc = "aborted" => UNCHANGED vars]_vars

\* C24 witness: the iteration was ended by an API error after a File result
\* had been put into both queues.
C24_Witness ==
    /\ mainPc = "aborted" /\ visited = 1
    /\ Len(sampleQ) = 1 /\ sampleUnf = 1
    /\ Len(behQ) = 1 /\ behUnf = 1

\* C25: when a run has returned, every sample file on disk is the complete
\* result of a download that succeeded: none is the leftover of a download
\* that failed, which os.path.isfile would take for a cache hit.
C25_NoFileFromFailedDownload ==
    mainPc = "returned" =>
        \A id \in Ids : IsFile(samplesDisk[id]) => samplesDisk[id] = "full"

\* C26: no two sample workers are in a download for the same identifier; a
\* download call is issued only for an identifier without a file and leaves
\* it with one, and a file once there stays; so the download calls of a run
\* number at most the identifiers that have a file.
C26_DuplicateDownloadedOnce ==
    /\ [](\A v, w \in Workers :
            (v # w /\ pcS[v] = "download" /\ pcS[w] = "download") => curS[v] # curS[w])
    /\ [](sampleFetch <= Cardinality({id \in Ids : samplesDisk[id] # "absent"}))
    /\ [][\A id \in Ids :
            /\ samplesDisk[id] # "absent" => samplesDisk'[id] # "absent"
            /\ \A w \in Workers :
                  (pcS[w] # "download" /\ pcS'[w] = "download" /\ curS'[w] = id) =>
                      /\ samplesDisk[id] = "absent" /\ samplesDisk'[id] # "absent"
                      /\ sampleFetch' = sampleFetch + 1]_vars

\* C26 witness: a batch run with two workers put the same record id twice; one
\* worker is in the download for it and the other has taken the second copy
\* and skipped it.
C26_Witness ==
    /\ entry = "batch" /\ options.workers = 2
    /\ LET put == Flatten([w \in 1..options.workers |-> resI[w]]) IN
          /\ Len(put) = 2 /\ put[1] = put[2]
          /\ \E w \in Workers : pcS[w] = "download" /\ curS[w] = put[1]
    /\ samplePut = 2 /\ sampleGot = 2 /\ sampleFetch = 1

====
